---- MODULE Spec2Model ----
(***************************************************************************)
(* Model of main.py: a menu-driven Selenium scraper.  One scrape session   *)
(* (scrape_keyword_on_site_auto_resume) navigates, detects a block page,   *)
(* waits for a human, paginates and extracts; main() writes the CSV.       *)
(*                                                                         *)
(* Text is a sequence of one-character strings.  A Python Optional value   *)
(* is None == <<>> or Some(v) == <<v>>.                                    *)
(***************************************************************************)
EXTENDS Integers, Sequences, FiniteSets, TLC

VARIABLES
    pc,              \* position of the program
    caller,          \* "main": main() runs the session; "direct": the function is called on its own
    cfg,             \* key of the chosen site profile in SITES
    pages,           \* parameter pages of the session (the page budget)
    manual_timeout,  \* parameter manual_timeout of the session
    browser,         \* the Chrome process: "none", "open", "closed"
    driver,          \* TRUE when the session's local variable driver is bound (start_driver returned)
    page_src,        \* local page_src: the last markup read (a Page)
    waited,          \* local waited of the poll loop
    collected,       \* local collected
    current_page,    \* local current_page
    clicked,         \* local clicked
    sel_idx,         \* position of `for sel in cfg["next_button"]`
    nodes_left,      \* elements of `for n in nodes` not yet visited
    pending,         \* what the try block is leaving with, while the finally clause runs
    outcome,         \* how the session ended: NoOutcome, [kind |-> "return", ...] or [kind |-> "raise", ...]
    csv_file,        \* the CSV written by save_to_csv: None or Some(rows)
    message,         \* what main() printed last to the operator
    hist,            \* history of the run (what happened, for stating the properties)
    last,            \* the step taken last and what the environment did in it
    page_text,       \* argument of a stand-alone call of looks_blocked
    lb_result,       \* its result: None before the call, Some(BOOLEAN) after
    html_arg,        \* BeautifulSoup(html) of a stand-alone call of parse_products_from_html
    blocks,          \* its local blocks: None before line 152, Some(sequence of nodes) after
    items            \* its local items: None before line 159, Some(sequence of records) after

vars == << pc, caller, cfg, pages, manual_timeout, browser, driver, page_src, waited,
           collected, current_page, clicked, sel_idx, nodes_left, pending, outcome,
           csv_file, message, hist, last, page_text, lb_result, html_arg, blocks, items >>

---------------------------------------------------------------------------
(* Optional values and text *)

None == << >>

Some(v) == << v >>

Range(s) == { s[i] : i \in 1..Len(s) }

\* Sequences over S of length at most n
SeqUpTo(S, n) == UNION { [1..k -> S] : k \in 0..n }

UPPERCASE == <<"A","B","C","D","E","F","G","H","I","J","K","L","M",
               "N","O","P","Q","R","S","T","U","V","W","X","Y","Z">>

LOWERCASE == <<"a","b","c","d","e","f","g","h","i","j","k","l","m",
               "n","o","p","q","r","s","t","u","v","w","x","y","z">>

\* str.lower() on one character
lower_char(c) ==
    IF \E i \in 1..Len(UPPERCASE) : UPPERCASE[i] = c
    THEN LOWERCASE[CHOOSE i \in 1..Len(UPPERCASE) : UPPERCASE[i] = c]
    ELSE c

\* str.lower()
str_lower(s) == [i \in 1..Len(s) |-> lower_char(s[i])]

\* str.upper() on one character (used to build inputs only)
upper_char(c) ==
    IF \E i \in 1..Len(LOWERCASE) : LOWERCASE[i] = c
    THEN UPPERCASE[CHOOSE i \in 1..Len(LOWERCASE) : LOWERCASE[i] = c]
    ELSE c

str_upper(s) == [i \in 1..Len(s) |-> upper_char(s[i])]

\* str.startswith(prefix)
startswith(s, prefix) ==
    /\ Len(prefix) <= Len(s)
    /\ SubSeq(s, 1, Len(prefix)) = prefix

RECURSIVE find_from(_, _, _)
\* the scan behind Python's `needle in hay`, from position i on
find_from(needle, hay, i) ==
    IF i + Len(needle) - 1 > Len(hay) THEN FALSE
    ELSE IF SubSeq(hay, i, i + Len(needle) - 1) = needle THEN TRUE
    ELSE find_from(needle, hay, i + 1)

\* Python's `needle in hay` on str
str_in(needle, hay) == find_from(needle, hay, 1)

---------------------------------------------------------------------------
(* Block Detector *)

\* BLOCK_INDICATORS = ["captcha", "verify", "are you human", "access denied",
\*                     "please verify", "sign in", "login", "blocked"]
BLOCK_INDICATORS == <<
    <<"c","a","p","t","c","h","a">>,
    <<"v","e","r","i","f","y">>,
    <<"a","r","e"," ","y","o","u"," ","h","u","m","a","n">>,
    <<"a","c","c","e","s","s"," ","d","e","n","i","e","d">>,
    <<"p","l","e","a","s","e"," ","v","e","r","i","f","y">>,
    <<"s","i","g","n"," ","i","n">>,
    <<"l","o","g","i","n">>,
    <<"b","l","o","c","k","e","d">> >>

RECURSIVE any_token_from(_, _)
\* for token in BLOCK_INDICATORS: if token in low: return True  /  return False
any_token_from(low, k) ==
    IF k > Len(BLOCK_INDICATORS) THEN FALSE
    ELSE IF str_in(BLOCK_INDICATORS[k], low) THEN TRUE
    ELSE any_token_from(low, k + 1)

\* a plausible slip: the text is not lowercased before the scan
looks_blocked_case_sensitive(text) ==
    IF text = None \/ text[1] = << >> THEN FALSE
    ELSE any_token_from(text[1], 1)

\* looks_blocked(page_text); text is an Optional text
looks_blocked(text) ==
    IF text = None \/ text[1] = << >> THEN FALSE
    ELSE any_token_from(str_lower(text[1]), 1)

---------------------------------------------------------------------------
(* Site profiles *)

\* SITES: the three profiles.  product_block selectors and the url template are
\* text (the code searches the first in the markup and formats the second);
\* the other selectors are only handed to the DOM.  The key "name" of a profile
\* holds the selector list (the later of the two "name" keys of the dict literal).
SITES == [c \in {"1", "2", "3"} |->
    CASE c = "1" ->
        [ id |-> "flipkart",
          url |-> <<"h","t","t","p","s",":","/","/","w","w","w",".","f","l","i","p","k","a","r","t",".","c","o","m","/","s","e","a","r","c","h","?","q","=","{","q","}">>,
          product_block |-> <<
              <<"d","i","v",".","_","2","k","H","M","t","A">>,
              <<"d","i","v",".","_","1","A","t","V","b","E",".","_","1","3","o","c","-","S">> >>,
          name |-> <<"div._4rR01T", "a.s1Q9rs">>,
          price |-> <<"div._30jeq3", "div._25b18c">>,
          rating |-> <<"div._3LWZlK">>,
          next_button |-> <<"a._1LKTO3", "a._1GTrmS">> ]
      [] c = "2" ->
        [ id |-> "amazon_in",
          url |-> <<"h","t","t","p","s",":","/","/","w","w","w",".","a","m","a","z","o","n",".","i","n","/","s","?","k","=","{","q","}">>,
          product_block |-> <<
              <<"d","i","v",".","s","-","r","e","s","u","l","t","-","i","t","e","m","[","d","a","t","a","-","c","o","m","p","o","n","e","n","t","-","t","y","p","e","=","'","s","-","s","e","a","r","c","h","-","r","e","s","u","l","t","'","]">> >>,
          name |-> <<"h2 a span">>,
          price |-> <<"span.a-price > span.a-offscreen">>,
          rating |-> <<"span.a-icon-alt">>,
          next_button |-> <<"a.s-pagination-next">> ]
      [] OTHER ->
        [ id |-> "snapdeal",
          url |-> <<"h","t","t","p","s",":","/","/","w","w","w",".","s","n","a","p","d","e","a","l",".","c","o","m","/","s","e","a","r","c","h","?","k","e","y","w","o","r","d","=","{","q","}">>,
          product_block |-> <<
              <<"d","i","v",".","p","r","o","d","u","c","t","-","t","u","p","l","e","-","l","i","s","t","i","n","g">> >>,
          name |-> <<"p.product-title", "a.dp-widget-link">>,
          price |-> <<"span.product-price">>,
          rating |-> <<"div.hotnessStars">>,
          next_button |-> <<"a[data-page]">> ] ]

---------------------------------------------------------------------------
(* Extractor.  A parsed document (BeautifulSoup(html)) is the sequence of its  *)
(* candidate container elements in document order.  An element node is         *)
(*   [id, markup, matched, sub, anchor]:                                       *)
(*   id      the node's identity in the tree                                   *)
(*   markup  its name, attributes and contents (bs4 compares Tags by these)    *)
(*   matched the product_block selectors that select it                        *)
(*   sub     selector |-> Optional [title, text], the answer of select_one     *)
(*   anchor  Optional [href]: the first <a> inside, href an Optional text      *)

\* Tag.__eq__ of bs4, used by `b not in blocks`: same name, attributes, contents
tag_eq(a, b) == a.markup = b.markup

\* soup.select(sel)
select(soup, sel) == SelectSeq(soup, LAMBDA n : sel \in n.matched)

\* block.select_one(sel)
select_one(block, sel) ==
    IF sel \in DOMAIN block.sub THEN block.sub[sel] ELSE None

RECURSIVE first_match_from(_, _, _)
first_match_from(block, selectors, k) ==
    IF k > Len(selectors) THEN None
    ELSE IF select_one(block, selectors[k]) # None THEN select_one(block, selectors[k])
    ELSE first_match_from(block, selectors, k + 1)

\* first_match(block, selectors)
first_match(block, selectors) == first_match_from(block, selectors, 1)

RECURSIVE add_found(_, _, _)
\* for b in found: if b not in blocks: blocks.append(b)
add_found(acc, found, k) ==
    IF k > Len(found) THEN acc
    ELSE IF \E i \in 1..Len(acc) : tag_eq(acc[i], found[k])
         THEN add_found(acc, found, k + 1)
         ELSE add_found(Append(acc, found[k]), found, k + 1)

RECURSIVE collect_blocks(_, _, _, _)
\* for sel in cfg.get("product_block", []): found = soup.select(sel) ...
collect_blocks(soup, sels, k, acc) ==
    IF k > Len(sels) THEN acc
    ELSE collect_blocks(soup, sels, k + 1, add_found(acc, select(soup, sels[k]), 1))

RECURSIVE index_of(_, _, _)
\* str.find(needle) from position i on; 0 when absent
index_of(needle, hay, i) ==
    IF i + Len(needle) - 1 > Len(hay) THEN 0
    ELSE IF SubSeq(hay, i, i + Len(needle) - 1) = needle THEN i
    ELSE index_of(needle, hay, i + 1)

\* base.format(q=value) for a template with the one field {q}
format_q(template, value) ==
    LET at == index_of(<<"{","q","}">>, template, 1) IN
    IF at = 0 THEN template
    ELSE SubSeq(template, 1, at - 1) \o value \o SubSeq(template, at + 3, Len(template))

\* scheme://host of an absolute URL: the text before the third "/"
origin_of(url) ==
    LET slashes == index_of(<<"/","/">>, url, 1)
        third == IF slashes = 0 THEN 0 ELSE index_of(<<"/">>, url, slashes + 2)
    IN IF third = 0 THEN url ELSE SubSeq(url, 1, third - 1)

\* urllib.parse.urljoin(base, href) for a root-relative href ("/..."):
\* the origin of base followed by href
urljoin(base, href) == origin_of(base) \o href

\* the href of the first anchor, made absolute (lines 165-175)
resolve_href(b, site) ==
    IF b.anchor # None /\ b.anchor[1].href # None /\ b.anchor[1].href[1] # << >>
    THEN LET href == b.anchor[1].href[1] IN
         IF startswith(href, <<"/","/">>) THEN Some(<<"h","t","t","p","s",":">> \o href)
         ELSE IF startswith(href, <<"/">>) THEN Some(urljoin(format_q(site.url, << >>), href))
         ELSE Some(href)
    ELSE None

\* the record of one container and whether it is emitted (lines 161-184)
record_of(b, site) ==
    LET name_el   == first_match(b, site.name)
        price_el  == first_match(b, site.price)
        rating_el == first_match(b, site.rating)
        title == IF name_el # None /\ name_el[1].title # None /\ name_el[1].title[1] # ""
                 THEN name_el[1].title
                 ELSE IF name_el # None THEN Some(name_el[1].text) ELSE None
        price_txt  == IF price_el # None THEN Some(price_el[1].text) ELSE None
        rating_txt == IF rating_el # None THEN Some(rating_el[1].text) ELSE None
    IN [ product_name |-> title, price |-> price_txt, rating |-> rating_txt,
         product_url |-> resolve_href(b, site) ]

\* Python truth of an Optional str: neither None nor ""
truthy(o) == o # None /\ o[1] # ""

\* a plausible slip: every container yields a record
emits_always(r) == TRUE

\* if title or price_txt  (line 178)
emits(r) == truthy(r.product_name) \/ truthy(r.price)

RECURSIVE items_from(_, _, _)
\* for b in blocks: ... if title or price_txt: items.append({...})
items_from(bs, s, k) ==
    IF k > Len(bs) THEN << >>
    ELSE LET r == record_of(bs[k], s) IN
         IF emits(r)
         THEN << r >> \o items_from(bs, s, k + 1)
         ELSE items_from(bs, s, k + 1)

\* parse_products_from_html(html, cfg); html.dom is BeautifulSoup(html, "lxml")
parse_products_from_html(html, site) ==
    items_from(collect_blocks(html.dom, site.product_block, 1, << >>), site, 1)

---------------------------------------------------------------------------
(* Bounds of the model *)

\* largest page budget tried besides the default
MaxPages == 2

\* largest wait ceiling tried besides the one main() passes
MaxTimeout == 3

\* most elements one next_button selector finds
MaxNodes == 2

\* longest padding put around a phrase in the inputs of looks_blocked
MaxPad == 1

\* most candidate containers in a document handed to parse_products_from_html
MaxDoc == 2

(* Program constants *)

\* main(): manual_timeout=300
MainManualTimeout == 300

\* pages: int = 2 of the session's signature; main() falls back to the same
\* number when the answer is empty or not a number
DefaultPages == 2

\* time.sleep(2) / waited += 2
PollSeconds == 2

---------------------------------------------------------------------------
(* What the browser can show.  The page is under the control of the site and  *)
(* of the human in front of the browser: every read may return any of these.  *)

NameEl(title, text) == Some([title |-> title, text |-> text])

\* a container with a name, a price and a root-relative link
NodeFull(site) ==
    [ id |-> 1, markup |-> "full",
      matched |-> Range(site.product_block),
      sub |-> (site.name[1] :> NameEl(None, "Shoe A")) @@ (site.price[1] :> NameEl(None, "999")),
      anchor |-> Some([href |-> Some(<<"/","p","/","1">>)]) ]

\* a container with neither name nor price (an ad or a placeholder)
NodeNoise(site) ==
    [ id |-> 2, markup |-> "noise",
      matched |-> {site.product_block[1]},
      sub |-> (site.rating[1] :> NameEl(None, "4.1")),
      anchor |-> None ]

\* a container with a titled name found by the last name selector, no price
NodeTitled(site) ==
    [ id |-> 3, markup |-> "titled",
      matched |-> {site.product_block[Len(site.product_block)]},
      sub |-> (site.name[Len(site.name)] :> NameEl(Some("Shoe B"), "Shoe B (blue)")),
      anchor |-> Some([href |-> Some(<<"h","t","t","p","s",":","/","/","x",".","e","x","a","m","p","l","e","/","p","/","3">>)]) ]

\* the empty document
PgEmpty == [text |-> << >>, dom |-> << >>]

\* a login wall: "Sign In to continue"
PgWall(site) ==
    [ text |-> <<"S","i","g","n"," ","I","n"," ","t","o"," ","c","o","n","t","i","n","u","e">>,
      dom |-> << >> ]

\* a page that names a product_block selector and still says LOGIN
PgWallSel(site) ==
    [ text |-> site.product_block[1] \o <<"L","O","G","I","N">>,
      dom |-> << >> ]

\* a result page whose markup contains the selector text
PgItemsSel(site) ==
    [ text |-> <<"<","p",">">> \o site.product_block[Len(site.product_block)] \o <<"<","/","p",">">>,
      dom |-> << NodeFull(site), NodeNoise(site), NodeTitled(site) >> ]

\* a result page whose markup does not contain the selector text
PgItems(site) ==
    [ text |-> <<"<","p",">","o","k","<","/","p",">">>,
      dom |-> << NodeTitled(site) >> ]

Markups(site) == { PgEmpty, PgWall(site), PgWallSel(site), PgItemsSel(site), PgItems(site) }

\* for psel in cfg.get("product_block", []): if psel in page_src  (lines 236-239)
selector_text_in(site, text) ==
    \E k \in 1..Len(site.product_block) : str_in(site.product_block[k], text)

\* The verdicts of the code on each markup of each site, computed once:
\* looks_blocked(page_src), the selector-text test of lines 236-239, and
\* parse_products_from_html(html, cfg).
MarkupsOf == [c \in DOMAIN SITES |-> Markups(SITES[c])]

BlockedOf ==
    [c \in DOMAIN SITES |-> [p \in Markups(SITES[c]) |-> looks_blocked(Some(p.text))]]

SelectorTextOf ==
    [c \in DOMAIN SITES |-> [p \in Markups(SITES[c]) |-> selector_text_in(SITES[c], p.text)]]

ItemsOf ==
    [c \in DOMAIN SITES |->
        [p \in Markups(SITES[c]) |-> parse_products_from_html(p, SITES[c])]]

---------------------------------------------------------------------------
(* Exceptions *)

KI == "KeyboardInterrupt"

WDE == "WebDriverException"

\* what a call into the browser can do: return, raise selenium's exception
\* (a subclass of Exception), or be interrupted
Results == { "ok", WDE, KI }

\* driver.get can also fail below selenium (the connection to the driver)
NavResults == Results \cup { "OtherException" }

NoPending == [kind |-> "none", value |-> << >>, exc |-> "", at |-> ""]

Return(v) == [kind |-> "return", value |-> v, exc |-> "", at |-> ""]

Raise(e, where) == [kind |-> "raise", value |-> << >>, exc |-> e, at |-> where]

---------------------------------------------------------------------------
(* main(): the prompts *)

DIGITS == <<"0","1","2","3","4","5","6","7","8","9">>

is_digit(c) == \E i \in 1..Len(DIGITS) : DIGITS[i] = c

digit_value(c) == (CHOOSE i \in 1..Len(DIGITS) : DIGITS[i] = c) - 1

RECURSIVE str_strip(_)
\* str.strip() of blanks
str_strip(s) ==
    IF s = << >> THEN s
    ELSE IF Head(s) = " " THEN str_strip(Tail(s))
    ELSE IF s[Len(s)] = " " THEN str_strip(SubSeq(s, 1, Len(s) - 1))
    ELSE s

RECURSIVE digits_value(_, _)
digits_value(s, acc) ==
    IF s = << >> THEN acc ELSE digits_value(Tail(s), 10 * acc + digit_value(Head(s)))

\* int(s): Some(n), or None for ValueError
py_int(s) ==
    LET t == str_strip(s)
        signed == t # << >> /\ Head(t) \in {"-", "+"}
        body == IF signed THEN Tail(t) ELSE t
    IN IF body = << >> \/ \E i \in 1..Len(body) : ~is_digit(body[i]) THEN None
       ELSE IF signed /\ Head(t) = "-" THEN Some(0 - digits_value(body, 0))
       ELSE Some(digits_value(body, 0))

\* try: pages = int(input(...).strip() or "2")  except ValueError: pages = 2
read_pages(answer) ==
    LET t == str_strip(answer)
        n == py_int(IF t = << >> THEN <<"2">> ELSE t)
    IN IF n = None THEN DefaultPages ELSE n[1]

\* answers to "Number of pages to scrape"
PagesAnswers ==
    { << >>, <<" ">>, <<"x">>, <<"2","x">>, <<"-","1">>, <<"+","1">> }
    \cup { << DIGITS[n + 1] >> : n \in 0..MaxPages }
    \cup { <<" ", DIGITS[n + 1], " ">> : n \in 1..MaxPages }

\* answers to "Enter choice (1/2/3)"
Choices == { "1", "2", "3", "4", "" }

\* answers to "Enter keyword", stripped
Keywords == { "", "shoes" }

---------------------------------------------------------------------------
(* The state *)

site == SITES[cfg]

NoHistory ==
    [ first_blocked |-> FALSE,  \* the first detection (line 211) reported blocked
      snapshots    |-> 0,       \* calls of save_debug_files
      wait_clean   |-> TRUE,    \* every markup read in the wait and the re-check was blocked, without selector text
      recheck      |-> "none",  \* the re-check (line 251): "blocked" or "clear"
      extracts     |-> 0,       \* calls of parse_products_from_html
      interactions |-> 0,       \* clicks and direct navigations tried in this iteration
      quits        |-> 0,       \* calls of driver.quit
      csv_writes   |-> 0 ]      \* calls of save_to_csv

\* the step taken last: its name, what the call into the environment did
\* (result, and detail for the handler of lines 280-286), the markup it read
Did(step, result) == [step |-> step, result |-> result, detail |-> "", page |-> PgEmpty]

DidRead(step, p) == [step |-> step, result |-> "ok", detail |-> "", page |-> p]

DidBoth(step, result, detail) ==
    [step |-> step, result |-> result, detail |-> detail, page |-> PgEmpty]

\* the values of the locals before they are assigned, and of main's outputs
Unstarted ==
    /\ browser = "none"
    /\ driver = FALSE
    /\ page_src = PgEmpty
    /\ waited = 0
    /\ collected = << >>
    /\ current_page = 0
    /\ clicked = FALSE
    /\ sel_idx = 0
    /\ nodes_left = 0
    /\ pending = NoPending
    /\ outcome = NoPending
    /\ csv_file = None
    /\ message = [text |-> "", count |-> 0]
    /\ hist = NoHistory
    /\ last = Did("", "")

\* Either main() runs (it passes the page budget it read and manual_timeout=300),
\* or scrape_keyword_on_site_auto_resume is called on its own with a ceiling of
\* the caller's choice and the default page budget of its signature.
Init ==
    /\ Unstarted
    /\ page_text = None
    /\ lb_result = None
    /\ html_arg = << >>
    /\ blocks = None
    /\ items = None
    /\ \/ /\ caller = "main"
          /\ pc = "main"
          /\ cfg = "1"
          /\ pages = DefaultPages
          /\ manual_timeout = MainManualTimeout
       \/ /\ caller = "direct"
          /\ pc = "start_driver"
          /\ cfg \in DOMAIN SITES
          /\ pages = DefaultPages
          /\ manual_timeout \in (0 - 1)..MaxTimeout

paramV == << caller, cfg, pages, manual_timeout >>

loopV == << collected, current_page, clicked, sel_idx, nodes_left >>

mainV == << csv_file, message >>

fnV == << page_text, lb_result, html_arg, blocks, items >>

\* the try block is left (by return or by an exception): the finally clause runs next
Leave(p) ==
    /\ pc' = "finally"
    /\ pending' = p

\* the session function is left with p: a return value or an exception.
\* main() has no handler around the call (line 360): an exception ends the process.
\* The locals of the function end with it.
Exit(p) ==
    /\ outcome' = p
    /\ page_src' = PgEmpty
    /\ waited' = 0
    /\ collected' = << >>
    /\ current_page' = 0
    /\ clicked' = FALSE
    /\ sel_idx' = 0
    /\ nodes_left' = 0
    /\ pc' = IF p.kind = "return"
             THEN (IF caller = "main" THEN "save" ELSE "returned")
             ELSE (IF caller = "main" THEN "crashed" ELSE "raised")

---------------------------------------------------------------------------
(* main(), lines 332-360: the prompts, then the call of the session *)

main_prompts ==
    /\ pc = "main"
    /\ \E choice \in Choices, keyword \in Keywords, answer \in PagesAnswers :
        IF choice \notin DOMAIN SITES
        THEN /\ message' = [text |-> "Invalid choice. Exiting.", count |-> 0]
             /\ pc' = "exit"
             /\ UNCHANGED << cfg, pages >>
        ELSE IF keyword = ""
        THEN /\ message' = [text |-> "No keyword. Exiting.", count |-> 0]
             /\ pc' = "exit"
             /\ UNCHANGED << cfg, pages >>
        ELSE /\ cfg' = choice
             /\ pages' = read_pages(answer)
             /\ pc' = "start_driver"
             /\ UNCHANGED message
    /\ last' = Did("main_prompts", "ok")
    /\ UNCHANGED << caller, manual_timeout, browser, driver, page_src, waited, loopV,
                    pending, outcome, csv_file, hist, fnV >>

(* start_driver, lines 73-85, called at line 195 outside the try block *)
start_driver ==
    /\ pc = "start_driver"
    /\ \E r \in { "ok", "no_browser", "no_timeout" } :
        /\ last' = Did("start_driver", r)
        /\ \/ /\ r = "ok"
              /\ browser' = "open"
              /\ driver' = TRUE
              /\ pc' = "navigate"
              /\ UNCHANGED << outcome, page_src, waited, loopV >>
           \/ /\ r = "no_browser"      \* lines 82-83 raise: no process
              /\ UNCHANGED << browser, driver >>
              /\ Exit(Raise(WDE, "start_driver"))
           \/ /\ r = "no_timeout"      \* line 84 raises: the process runs, driver is never bound
              /\ browser' = "open"
              /\ UNCHANGED driver
              /\ Exit(Raise(WDE, "start_driver"))
    /\ UNCHANGED << paramV, pending, mainV, hist, fnV >>

\* a plausible slip: the handler of line 201 re-raises
nav_failure_escapes_always(r) == r # "ok"

\* driver.get raised something that `except WebDriverException` (line 201) does not catch
nav_failure_escapes(r) == r \notin { "ok", WDE }

(* lines 197-204: driver.get(start_url) *)
navigate ==
    /\ pc = "navigate"
    /\ \E r \in NavResults :
        /\ last' = Did("navigate", r)
        /\ IF nav_failure_escapes(r)
           THEN Leave(Raise(r, "navigate"))
           ELSE /\ pc' = "cleanup"     \* line 202: warn and go on
                /\ UNCHANGED pending
    /\ UNCHANGED << paramV, browser, driver, page_src, waited, loopV, outcome, mainV,
                    hist, fnV >>

(* close_login_popup_best_effort, lines 99-117: every failure, KeyboardInterrupt
   included, is swallowed by the bare except clauses *)
close_login_popup_best_effort ==
    /\ pc = "cleanup"
    /\ \E r \in Results : last' = Did("cleanup", r)
    /\ pc' = "scroll"
    /\ UNCHANGED << paramV, browser, driver, page_src, waited, loopV, pending, outcome,
                    mainV, hist, fnV >>

\* a plausible slip: a bare except, as in close_login_popup_best_effort
scroll_swallows_all(r) == TRUE

\* except Exception (line 125): KeyboardInterrupt is not an Exception
scroll_swallows(r) == r # KI

(* gradual_scroll, lines 120-126, and the sleep of line 207 *)
gradual_scroll ==
    /\ pc = "scroll"
    /\ \E r \in Results :
        /\ last' = Did("scroll", r)
        /\ IF ~scroll_swallows(r)
           THEN Leave(Raise(r, "scroll"))
           ELSE /\ pc' = "detect"
                /\ UNCHANGED pending
    /\ UNCHANGED << paramV, browser, driver, page_src, waited, loopV, outcome, mainV,
                    hist, fnV >>

\* lines 257-258.  page_src and waited are not read after this point: the model
\* forgets them here (last.page keeps the markup for one step).
BeginPagination ==
    /\ collected' = << >>
    /\ current_page' = 0
    /\ waited' = 0
    /\ page_src' = PgEmpty
    /\ pc' = "page_loop"

\* a plausible slip: the first detection is dropped
first_detection_skipped(p) == FALSE

\* if looks_blocked(page_src)  (line 211)
first_detection(p) == BlockedOf[cfg][p]

(* lines 210-211: the first detection *)
detect_block ==
    /\ pc = "detect"
    /\ \/ \E r \in Results \ {"ok"} :
            /\ last' = Did("detect", r)
            /\ Leave(Raise(r, "detect"))
            /\ UNCHANGED << page_src, collected, current_page, waited, hist >>
       \/ \E p \in MarkupsOf[cfg] :
            /\ last' = DidRead("detect", p)
            /\ IF first_detection(p)
               THEN /\ pc' = "snapshot"
                    /\ page_src' = p
                    /\ hist' = [hist EXCEPT !.first_blocked = TRUE]
                    /\ UNCHANGED << collected, current_page, waited >>
               ELSE /\ BeginPagination
                    /\ UNCHANGED hist
            /\ UNCHANGED pending
    /\ UNCHANGED << paramV, browser, driver, clicked, sel_idx, nodes_left,
                    outcome, mainV, fnV >>

(* lines 212-217: save_debug_files (except Exception: logged) and the notice *)
save_debug_files ==
    /\ pc = "snapshot"
    /\ hist' = [hist EXCEPT !.snapshots = @ + 1]
    /\ \E r \in Results :
        /\ last' = Did("snapshot", r)
        /\ IF r = KI
           THEN Leave(Raise(KI, "snapshot"))
           ELSE /\ pc' = "wait_enter"
                /\ UNCHANGED pending
    /\ UNCHANGED << paramV, browser, driver, page_src, waited, loopV, outcome, mainV, fnV >>

(* lines 219-230: entering the try block of the wait *)
wait_enter ==
    /\ pc = "wait_enter"
    /\ \E r \in { "ok", KI } :
        /\ last' = Did("wait", r)
        /\ IF r = KI                    \* during print (line 225): caught at line 245
           THEN /\ pc' = "recheck"
                /\ UNCHANGED waited
           ELSE /\ pc' = "poll"
                /\ waited' = 0
    /\ UNCHANGED << paramV, browser, driver, page_src, loopV, pending, outcome, mainV,
                    hist, fnV >>

\* a plausible slip: the loop goes on while waited <= manual_timeout
poll_guard_inclusive == waited <= manual_timeout

\* while waited < manual_timeout  (line 231)
poll_guard == waited < manual_timeout

\* a plausible slip: KeyboardInterrupt is not caught in the wait
interrupt_in_wait_escapes ==
    /\ Leave(Raise(KI, "wait"))
    /\ UNCHANGED << page_src, hist >>

\* except KeyboardInterrupt: ... break  (lines 245-248): on to the re-check
interrupt_in_wait ==
    /\ pc' = "recheck"
    /\ UNCHANGED << page_src, pending, hist >>

\* a plausible slip: the markup is parsed and the wait ends when it holds products
selector_text_parsed(p) == ItemsOf[cfg][p] # << >>

\* for psel in cfg.get("product_block", []): if psel in page_src: ... break  (lines 236-239)
selector_text_seen(p) == SelectorTextOf[cfg][p]

(* lines 231-243: one tick of the poll loop *)
poll_tick ==
    /\ pc = "poll"
    /\ poll_guard
    /\ \/ /\ last' = DidBoth("wait", KI, "sleep")   \* KeyboardInterrupt during time.sleep(2)
          /\ interrupt_in_wait
          /\ UNCHANGED waited
       \/ /\ last' = DidBoth("wait", KI, "read")    \* KeyboardInterrupt during driver.page_source
          /\ interrupt_in_wait
          /\ waited' = waited + PollSeconds
       \/ /\ last' = Did("wait", WDE)   \* driver.page_source raises: only KeyboardInterrupt is caught
          /\ Leave(Raise(WDE, "wait"))
          /\ waited' = waited + PollSeconds
          /\ UNCHANGED << page_src, hist >>
       \/ \E p \in MarkupsOf[cfg] :
            /\ last' = DidRead("wait", p)
            /\ waited' = waited + PollSeconds
            /\ page_src' = p
            /\ hist' = [hist EXCEPT !.wait_clean = @ /\ BlockedOf[cfg][p]
                                                     /\ ~SelectorTextOf[cfg][p]]
            /\ pc' = IF selector_text_seen(p) THEN "recheck" ELSE "poll"
            /\ UNCHANGED pending
    /\ UNCHANGED << paramV, browser, driver, loopV, outcome, mainV, fnV >>

(* line 231 false: the ceiling is reached; line 244 *)
poll_ceiling ==
    /\ pc = "poll"
    /\ ~poll_guard
    /\ pc' = "recheck"
    /\ last' = Did("wait", "ceiling")
    /\ UNCHANGED << paramV, browser, driver, page_src, waited, loopV, pending, outcome,
                    mainV, hist, fnV >>

\* a plausible slip: the re-check is dropped and pagination starts in any case
still_blocked_never(p) == FALSE

\* looks_blocked(page_src) of line 251
still_blocked(p) == BlockedOf[cfg][p]

(* lines 249-254: the re-check after the wait *)
recheck ==
    /\ pc = "recheck"
    /\ \/ \E r \in Results \ {"ok"} :
            /\ last' = Did("recheck", r)
            /\ Leave(Raise(r, "recheck"))
            /\ UNCHANGED << page_src, collected, current_page, waited, hist >>
       \/ \E p \in MarkupsOf[cfg] :
            /\ last' = DidRead("recheck", p)
            /\ IF still_blocked(p)
               THEN /\ Leave(Return(<< >>))
                    /\ page_src' = p
                    /\ hist' = [hist EXCEPT !.recheck = "blocked"]
                    /\ UNCHANGED << collected, current_page, waited >>
               ELSE /\ BeginPagination
                    /\ hist' = [hist EXCEPT !.recheck = "clear", !.wait_clean = FALSE]
                    /\ UNCHANGED pending
    /\ UNCHANGED << paramV, browser, driver, clicked, sel_idx, nodes_left,
                    outcome, mainV, fnV >>

---------------------------------------------------------------------------
(* Pagination Driver, lines 257-296 *)

\* a plausible slip: the loop is entered at least once (a do-while)
page_guard_at_least_once == current_page < pages \/ current_page = 0

\* while current_page < pages  (line 259)
page_guard == current_page < pages

\* a plausible slip: the page's items replace what was collected
extend_replacing(list, its) == its

\* if items: collected.extend(items)  (lines 266-267)
extend(list, its) == IF its # << >> THEN list \o its ELSE list

(* lines 259-269: scroll, read the markup, run the Extractor, collect *)
parse_page ==
    /\ pc = "page_loop"
    /\ page_guard
    /\ \/ \E r \in Results \ {"ok"} :   \* page_source or the Extractor raises, or an interrupt arrives
            /\ last' = Did("extract", r)
            /\ Leave(Raise(r, "extract"))
            /\ UNCHANGED << collected, clicked, sel_idx, nodes_left, hist >>
       \/ \E html \in MarkupsOf[cfg] :
            /\ last' = DidRead("extract", html)
            /\ collected' = extend(collected, ItemsOf[cfg][html])
            /\ clicked' = FALSE
            /\ sel_idx' = 1
            /\ nodes_left' = 0
            /\ pc' = "advance"
            /\ hist' = [hist EXCEPT !.extracts = @ + 1, !.interactions = 0]
            /\ UNCHANGED pending
    /\ UNCHANGED << paramV, browser, driver, page_src, waited, current_page, outcome,
                    mainV, fnV >>

(* line 259 false, line 296: the budget is used up *)
page_budget_reached ==
    /\ pc = "page_loop"
    /\ ~page_guard
    /\ Leave(Return(collected))
    /\ last' = Did("page_loop", "budget")
    /\ UNCHANGED << paramV, browser, driver, page_src, waited, loopV, outcome, mainV,
                    hist, fnV >>

\* the next selector of `for sel in cfg.get("next_button", [])`
NextSelector ==
    /\ sel_idx' = sel_idx + 1
    /\ nodes_left' = 0
    /\ pc' = "advance"

\* a plausible slip: the handler of line 289 names one exception class
interaction_failure_caught_narrowly(r) == r = "NoSuchElementException"

\* except Exception: pass  (lines 289-290); KeyboardInterrupt is not an Exception
interaction_failure_caught(r) == r # KI

\* an exception reaches the handler of line 289
SelectorFailed(r) ==
    IF interaction_failure_caught(r)
    THEN /\ NextSelector
         /\ UNCHANGED pending
    ELSE /\ Leave(Raise(r, "advance"))
         /\ UNCHANGED << sel_idx, nodes_left >>

(* lines 270-272 and 289-290: driver.find_elements for the next selector *)
find_next_button ==
    /\ pc = "advance"
    /\ sel_idx <= Len(site.next_button)
    /\ \/ \E r \in { KI, WDE } :           \* find_elements raises or is interrupted
            /\ last' = Did("advance", r)
            /\ SelectorFailed(r)
       \/ \E k \in 0..MaxNodes :
            /\ last' = Did("advance", "ok")
            /\ IF k = 0
               THEN NextSelector
               ELSE /\ nodes_left' = k
                    /\ pc' = "advance_node"
                    /\ UNCHANGED sel_idx
            /\ UNCHANGED pending
    /\ UNCHANGED << paramV, browser, driver, page_src, waited, collected, current_page,
                    clicked, outcome, mainV, hist, fnV >>

\* `for n in nodes` goes on to the next element, or the selector is done
NextNode ==
    IF nodes_left > 1
    THEN /\ nodes_left' = nodes_left - 1
         /\ UNCHANGED << sel_idx, pc >>
    ELSE NextSelector

\* a plausible slip: no break after a successful interaction
Advanced_without_break ==
    /\ clicked' = TRUE
    /\ NextNode
    /\ UNCHANGED pending

\* clicked = True; time.sleep(1.2); break; if clicked: break
Advanced ==
    /\ clicked' = TRUE
    /\ pc' = "after_advance"
    /\ UNCHANGED << sel_idx, nodes_left, pending >>

\* a click or a direct navigation was tried n times in this step
Tried(n) == hist' = [hist EXCEPT !.interactions = @ + n]

(* lines 273-288: one element found by the selector *)
try_next_button ==
    /\ pc = "advance_node"
    /\ \/ /\ last' = Did("advance", "hidden")       \* n.is_displayed() is False
          /\ NextNode
          /\ Tried(0)
          /\ UNCHANGED << clicked, pending >>
       \/ /\ last' = Did("advance", "clicked")      \* displayed, n.click() returns
          /\ Advanced
          /\ Tried(1)
       \/ /\ last' = Did("advance", KI)             \* an interrupt during is_displayed
          /\ Leave(Raise(KI, "advance"))
          /\ Tried(0)
          /\ UNCHANGED << clicked, sel_idx, nodes_left >>
       \/ /\ last' = DidBoth("advance", "clicked", KI)   \* an interrupt during the sleep of line 278
          /\ Leave(Raise(KI, "advance"))
          /\ Tried(1)
          /\ clicked' = TRUE
          /\ UNCHANGED << sel_idx, nodes_left >>
       \/ \E failed \in { "is_displayed", "click" } :   \* one of them raises: lines 280-286
            LET n == IF failed = "click" THEN 1 ELSE 0 IN
            \/ /\ last' = DidBoth("advance", failed, "get_attribute raised")
               /\ SelectorFailed(WDE)               \* caught at line 289
               /\ Tried(n)
               /\ UNCHANGED clicked
            \/ /\ last' = DidBoth("advance", failed, "no href")
               /\ NextNode
               /\ Tried(n)
               /\ UNCHANGED << clicked, pending >>
            \/ /\ last' = DidBoth("advance", failed, "navigated")
               /\ Advanced                          \* driver.get(href) returns
               /\ Tried(n + 1)
            \/ /\ last' = DidBoth("advance", failed, "driver.get raised")
               /\ SelectorFailed(WDE)               \* caught at line 289
               /\ Tried(n + 1)
               /\ UNCHANGED clicked
            \/ /\ last' = DidBoth("advance", failed, KI)
               /\ Leave(Raise(KI, "advance"))       \* an interrupt in the handler
               /\ Tried(n)
               /\ UNCHANGED << clicked, sel_idx, nodes_left >>
    /\ UNCHANGED << paramV, browser, driver, page_src, waited, collected, current_page,
                    outcome, mainV, fnV >>

\* a plausible slip: the page is counted before the test of clicked
next_page_index_always == current_page + 1

\* if not clicked: break / current_page += 1  (lines 291-294)
next_page_index == IF clicked THEN current_page + 1 ELSE current_page

(* the selectors are used up, or an element advanced: lines 291-294 *)
after_advance ==
    /\ \/ pc = "after_advance"
       \/ pc = "advance" /\ sel_idx > Len(site.next_button)
    /\ IF ~clicked
       THEN Leave(Return(collected))            \* break, then line 296
       ELSE /\ pc' = "page_loop"
            /\ UNCHANGED pending
    /\ current_page' = next_page_index
    /\ last' = Did("after_advance", "ok")
    /\ UNCHANGED << paramV, browser, driver, page_src, waited, collected, clicked,
                    sel_idx, nodes_left, outcome, mainV, hist, fnV >>

---------------------------------------------------------------------------
(* lines 298-302: finally: try: driver.quit() except: pass *)

\* a plausible slip: the handle is released on the normal path only
release_on_return_only(h) ==
    IF pending.kind = "return" THEN [h EXCEPT !.quits = @ + 1, !.interactions = 0]
    ELSE [h EXCEPT !.interactions = 0]

\* driver.quit() is called
release(h) == [h EXCEPT !.quits = @ + 1, !.interactions = 0]

finally_quit ==
    /\ pc = "finally"
    /\ \E r \in Results :               \* whatever quit raises is swallowed by the bare except
        /\ last' = Did("finally", r)
        /\ browser' = IF r = "ok" THEN "closed" ELSE browser
    /\ hist' = release(hist)
    /\ Exit(pending)
    /\ pending' = NoPending
    /\ UNCHANGED << paramV, driver, mainV, fnV >>

---------------------------------------------------------------------------
(* Sink *)

CsvHeaders == << "product_name", "price", "rating", "product_url" >>

\* csv writes None as the empty field
csv_field(v) == IF v = None THEN "" ELSE v[1]

\* writer.writerow({h: it.get(h) for h in headers})
csv_row(it) ==
    << csv_field(it.product_name), csv_field(it.price), csv_field(it.rating),
       csv_field(it.product_url) >>

\* a plausible slip: nothing is written when there are no items
save_to_csv_skipping_empty(its) ==
    IF its = << >> THEN << >>
    ELSE << CsvHeaders >> \o [i \in 1..Len(its) |-> csv_row(its[i])]

\* save_to_csv(items, filename): the rows of the file
save_to_csv(its) == << CsvHeaders >> \o [i \in 1..Len(its) |-> csv_row(its[i])]

(* main(), lines 362-371: write the file, tell the operator *)
main_save ==
    /\ pc = "save"
    /\ csv_file' = Some(save_to_csv(outcome.value))
    /\ hist' = [hist EXCEPT !.csv_writes = @ + 1]
    /\ message' = IF outcome.value # << >>
                  THEN [text |-> "Done", count |-> Len(outcome.value)]
                  ELSE [text |-> "No items scraped.", count |-> 0]
    /\ pc' = "exit"
    /\ last' = Did("main_save", "ok")
    /\ UNCHANGED << paramV, browser, driver, page_src, waited, loopV, pending, outcome, fnV >>

---------------------------------------------------------------------------

Next ==
    \/ main_prompts
    \/ start_driver
    \/ navigate
    \/ close_login_popup_best_effort
    \/ gradual_scroll
    \/ detect_block
    \/ save_debug_files
    \/ wait_enter
    \/ poll_tick
    \/ poll_ceiling
    \/ recheck
    \/ parse_page
    \/ page_budget_reached
    \/ find_next_button
    \/ try_next_button
    \/ after_advance
    \/ finally_quit
    \/ main_save

Spec == Init /\ [][Next]_vars

\* The program is one sequential thread: whatever step is next is taken.
\* sleep returns, and every call into the browser returns or raises.
FairSpec == Spec /\ WF_vars(Next)

Terminated == pc \in { "exit", "crashed", "returned", "raised" }

---------------------------------------------------------------------------
(* looks_blocked on its own: the argument is drawn, then the function is called *)

PadChars == { "x", " ", "Y", "n" }

Pads == SeqUpTo(PadChars, MaxPad)

\* str.capitalize() of a lowercase phrase
capitalized(t) == << upper_char(Head(t)) >> \o Tail(t)

\* the phrases as configured, in other cases, and cut short at either end
Phrases ==
    { << >> }
    \cup Range(BLOCK_INDICATORS)
    \cup { str_upper(t) : t \in Range(BLOCK_INDICATORS) }
    \cup { capitalized(t) : t \in Range(BLOCK_INDICATORS) }
    \cup { Tail(t) : t \in Range(BLOCK_INDICATORS) }
    \cup { SubSeq(t, 1, Len(t) - 1) : t \in Range(BLOCK_INDICATORS) }

TextInputs == { None } \cup { Some(a \o m \o b) : a \in Pads, m \in Phrases, b \in Pads }

InitLooksBlocked ==
    /\ Unstarted
    /\ pc = "off"
    /\ caller = "direct"
    /\ cfg = "1"
    /\ pages = DefaultPages
    /\ manual_timeout = MainManualTimeout
    /\ page_text \in TextInputs
    /\ lb_result = None
    /\ html_arg = << >>
    /\ blocks = None
    /\ items = None

call_looks_blocked ==
    /\ pc = "off"
    /\ lb_result = None
    /\ lb_result' = Some(looks_blocked(page_text))
    /\ UNCHANGED << pc, paramV, browser, driver, page_src, waited, loopV, pending, outcome,
                    mainV, hist, last, page_text, html_arg, blocks, items >>

NextLooksBlocked == call_looks_blocked

SpecLooksBlocked == InitLooksBlocked /\ [][NextLooksBlocked]_vars

---------------------------------------------------------------------------
(* parse_products_from_html on its own: the document and the profile are     *)
(* drawn, then the function runs: lines 152-158 build blocks, lines 159-185  *)
(* build items.                                                              *)

\* a container as the site can serve it; its identity is its place in the tree
Container(kind, matched, sub, anchor) ==
    [ id |-> 0, markup |-> kind, matched |-> matched, sub |-> sub, anchor |-> anchor ]

Href(text) == Some([href |-> Some(text)])

\* The containers tried.  Two containers of one kind have the same markup.
\*   full     name, price, root-relative link, selected by every candidate
\*   noise    neither name nor price, no anchor
\*   titled   name with a title attribute, absolute link, selected by the last candidate
\*   blank    a name element without text, no price, an anchor with an empty href
\*   priced   a price only, path-relative link
\*   bare     name with an empty title attribute, rating, protocol-relative link
Containers(s) ==
    { Container("full", Range(s.product_block),
                (s.name[1] :> NameEl(None, "Shoe A")) @@ (s.price[1] :> NameEl(None, "999")),
                Href(<<"/","p","/","1">>)),
      Container("noise", {s.product_block[1]},
                (s.rating[1] :> NameEl(None, "4.1")),
                None),
      Container("titled", {s.product_block[Len(s.product_block)]},
                (s.name[Len(s.name)] :> NameEl(Some("Shoe B"), "Shoe B (blue)")),
                Href(<<"h","t","t","p","s",":","/","/","x",".","e","x","a","m","p","l","e","/","p","/","3">>)),
      Container("blank", Range(s.product_block),
                (s.name[1] :> NameEl(None, "")),
                Href(<< >>)),
      Container("priced", {s.product_block[1]},
                (s.price[Len(s.price)] :> NameEl(None, "499")),
                Href(<<"p","/","5">>)),
      Container("bare", {s.product_block[Len(s.product_block)]},
                (s.name[1] :> NameEl(Some(""), "Shoe F")) @@ (s.rating[1] :> NameEl(None, "3.9")),
                Href(<<"/","/","c","d","n",".","e","x","a","m","p","l","e","/","p","/","6">>)) }

\* BeautifulSoup(html, "lxml"): the containers in document order, each its own node
Documents(s) ==
    { [i \in 1..Len(d) |-> [d[i] EXCEPT !.id = i]] : d \in SeqUpTo(Containers(s), MaxDoc) }

InitExtractor ==
    /\ Unstarted
    /\ pc = "parse_blocks"
    /\ caller = "direct"
    /\ cfg \in DOMAIN SITES
    /\ pages = DefaultPages
    /\ manual_timeout = MainManualTimeout
    /\ page_text = None
    /\ lb_result = None
    /\ html_arg \in Documents(SITES[cfg])
    /\ blocks = None
    /\ items = None

\* lines 151-158
parse_collect_blocks ==
    /\ pc = "parse_blocks"
    /\ blocks' = Some(collect_blocks(html_arg, site.product_block, 1, << >>))
    /\ pc' = "parse_items"
    /\ UNCHANGED << paramV, browser, driver, page_src, waited, loopV, pending, outcome,
                    mainV, hist, last, page_text, lb_result, html_arg, items >>

\* lines 159-185
parse_emit_items ==
    /\ pc = "parse_items"
    /\ items' = Some(items_from(blocks[1], site, 1))
    /\ pc' = "parsed"
    /\ UNCHANGED << paramV, browser, driver, page_src, waited, loopV, pending, outcome,
                    mainV, hist, last, page_text, lb_result, html_arg, blocks >>

NextExtractor ==
    \/ parse_collect_blocks
    \/ parse_emit_items

SpecExtractor == InitExtractor /\ [][NextExtractor]_vars

---------------------------------------------------------------------------
(* Properties *)

\* an interrupt arrived in the step taken last
InterruptedLast == last.result = KI \/ last.detail = KI

\* the session function has been left
SessionOver == outcome # NoPending

\* C1: when the wait has ended (by ceiling, by selector text or by interrupt) and
\* the re-check reads a markup that looks_blocked reports blocked, the session
\* leaves with the empty list, and no extraction and no advance interaction ever
\* took place in it.
C1_StillBlockedAborts ==
    /\ (last.step = "recheck" /\ last.result = "ok" /\ looks_blocked(Some(last.page.text)))
         => (pc = "finally" /\ pending = Return(<< >>) /\ hist.recheck = "blocked")
    /\ hist.recheck = "blocked"
         => /\ hist.extracts = 0
            /\ hist.interactions = 0
            /\ current_page = 0
            /\ collected = << >>
            /\ pc \in { "finally", "returned", "save", "exit" }
            /\ IF pc = "finally" THEN pending = Return(<< >>) ELSE outcome = Return(<< >>)

\* the re-check found the page still blocked after at least one tick of the wait
C1_Witness ==
    /\ pc = "finally"
    /\ hist.recheck = "blocked"
    /\ waited > 0
    /\ pending = Return(<< >>)

\* C2: a session whose driver was bound is left only through the finally clause,
\* which calls driver.quit exactly once, on every path (return, still-blocked
\* abort, exception from any phase); whatever quit does, the session leaves with
\* what the try block left with.
C2_HandleReleased ==
    /\ [](driver /\ SessionOver => hist.quits = 1)
    /\ [][ (driver /\ ~SessionOver /\ SessionOver')
             => (pc = "finally" /\ hist'.quits = hist.quits + 1 /\ outcome' = pending) ]_vars

\* an exception raised by the Extractor phase left the session, and quit itself failed
C2_Witness ==
    /\ SessionOver
    /\ outcome = Raise(WDE, "extract")
    /\ last = Did("finally", WDE)
    /\ hist.quits = 1

\* the wait a ceiling t allows: the least multiple of the poll interval not below t
CeilingWait(t) ==
    IF t <= 0 THEN 0 ELSE ((t + PollSeconds - 1) \div PollSeconds) * PollSeconds

\* C3: the poll loop never runs past the ticks the ceiling allows; when every
\* markup read in the wait was blocked and free of selector text and the wait was
\* not interrupted, the loop ends by the ceiling after exactly that many ticks and
\* the session leaves with the empty list; and every run terminates.
C3_WaitCeilingTerminates ==
    /\ [](pc = "poll" => waited <= CeilingWait(manual_timeout))
    /\ []((pc = "recheck" /\ hist.wait_clean /\ ~InterruptedLast)
            => (last.result = "ceiling" /\ waited = CeilingWait(manual_timeout)))
    /\ []((pc = "finally" /\ hist.first_blocked /\ hist.wait_clean /\ pending.kind = "return")
            => pending = Return(<< >>))
    /\ <>Terminated

\* a block that lasted the whole wait under an odd ceiling: two ticks, then the abort
C3_Witness ==
    /\ pc = "finally"
    /\ pending = Return(<< >>)
    /\ hist.first_blocked /\ hist.wait_clean
    /\ manual_timeout = 3
    /\ waited = 4

\* the session is leaving the pagination loop without ever having advanced
LeavingFirstPage ==
    /\ pc = "finally"
    /\ pending.kind = "return"
    /\ last.step \in { "page_loop", "after_advance" }
    /\ current_page = 0

\* C4 as stated: when nothing advances on the first page the Extractor has run
\* exactly once, whatever the page budget.
C4_OnePageAnyBudget == LeavingFirstPage => hist.extracts = 1

\* C4 amended: when nothing advances on the first page the Extractor has run
\* exactly once if the page budget is at least 1, and not at all if it is 0 or
\* negative (the loop body is never entered).
C4_OnePageIfBudgetPositive ==
    LeavingFirstPage => hist.extracts = (IF pages >= 1 THEN 1 ELSE 0)

\* a budget of two pages, one page parsed, no selector advanced
C4_Witness ==
    /\ LeavingFirstPage
    /\ pages = 2
    /\ last.step = "after_advance"
    /\ hist.extracts = 1

\* C5: after a fault raised in the session under main(), the handle is released,
\* the CSV is written and the operator is told the count or "no items scraped".
C5_FaultStillWritesFile ==
    (caller = "main" /\ Terminated /\ outcome.kind = "raise" /\ outcome.at # "start_driver")
      => /\ hist.quits = 1
         /\ csv_file # None
         /\ message.text \in { "Done", "No items scraped." }

\* the field of a row shows the value of a record: empty for None
FieldShows(field, v) == IF v = None THEN field = "" ELSE field = v[1]

RowShows(row, it) ==
    /\ Len(row) = 4
    /\ FieldShows(row[1], it.product_name)
    /\ FieldShows(row[2], it.price)
    /\ FieldShows(row[3], it.rating)
    /\ FieldShows(row[4], it.product_url)

\* C6: under main(), a session that returned is followed by exactly one call of
\* save_to_csv; the file holds the header row and then one row per returned
\* record in the order returned; after the still-blocked abort, the header only.
C6_SinkWritesEveryRecord ==
    /\ hist.csv_writes <= 1
    /\ (caller = "main" /\ outcome.kind = "return") => pc \in { "save", "exit" }
    /\ (caller = "main" /\ outcome.kind = "return" /\ pc = "exit") <=> hist.csv_writes = 1
    /\ hist.csv_writes = 1 <=> csv_file # None
    /\ csv_file # None =>
         /\ Len(csv_file[1]) = Len(outcome.value) + 1
         /\ csv_file[1][1] = << "product_name", "price", "rating", "product_url" >>
         /\ \A i \in 1..Len(outcome.value) : RowShows(csv_file[1][i + 1], outcome.value[i])
    /\ (hist.recheck = "blocked" /\ pc = "exit") => Len(csv_file[1]) = 1

\* three records returned, one of them without a price, and written
C6_Witness ==
    /\ csv_file # None
    /\ Len(outcome.value) = 3
    /\ \E i \in 1..3 : outcome.value[i].price = None
    /\ Len(csv_file[1]) = 4

\* C7: an interrupt in the wait ends it at that step, before the ceiling and
\* whatever the markup shows, and the session goes on to the re-check with nothing
\* raised; the re-check then starts pagination exactly when the markup it reads is
\* not blocked, and otherwise leaves with the empty list.
C7_InterruptEndsWaitOnly ==
    [][ /\ (pc \in { "wait_enter", "poll" } /\ last'.step = "wait"
              /\ (last'.result = KI \/ last'.detail = KI))
          => (pc' = "recheck" /\ pending' = NoPending /\ outcome' = NoPending)
        /\ (pc = "recheck" /\ InterruptedLast /\ last'.result = "ok")
          => /\ pc' = "page_loop" <=> ~looks_blocked(Some(last'.page.text))
             /\ pc' # "page_loop" => (pc' = "finally" /\ pending' = Return(<< >>)) ]_vars

\* interrupted after one tick, well before the ceiling, and pagination begun
C7_Witness ==
    /\ pc = "recheck"
    /\ InterruptedLast
    /\ waited = PollSeconds
    /\ manual_timeout = MainManualTimeout

\* the phases of the session in which nothing catches KeyboardInterrupt
UnguardedPhases ==
    { "navigate", "scroll", "detect", "snapshot", "recheck", "extract", "advance" }

C9_NavigationFailureContinues ==
    (last.step = "navigate" /\ last.result \in { "ok", WDE })
      => /\ pc = "cleanup"
         /\ pending = NoPending
         /\ ~SessionOver
         /\ browser = "open" /\ driver
         /\ hist = NoHistory

\* the first load failed and the session is at the modal cleanup
C9_Witness ==
    /\ last = Did("navigate", WDE)
    /\ pc = "cleanup"

\* two characters are the same letter, whatever their case
SameLetter(a, b) ==
    \/ a = b
    \/ \E i \in 1..Len(UPPERCASE) : {a, b} = {UPPERCASE[i], LOWERCASE[i]}

\* the phrase occurs in the text when case is ignored
OccursIgnoringCase(phrase, text) ==
    \E i \in 1..(Len(text) - Len(phrase) + 1) :
        \A k \in 1..Len(phrase) : SameLetter(text[i + k - 1], phrase[k])

\* C10: looks_blocked returns true exactly when the text is present, not empty,
\* and contains one of the configured phrases when case is ignored.
C10_LooksBlockedIff ==
    lb_result # None =>
        (lb_result[1] <=>
            /\ page_text # None
            /\ page_text[1] # << >>
            /\ \E k \in 1..Len(BLOCK_INDICATORS) :
                  OccursIgnoringCase(BLOCK_INDICATORS[k], page_text[1]))

\* a padded phrase that is not all lowercase was reported blocked
C10_Witness ==
    /\ lb_result = Some(TRUE)
    /\ page_text[1] # str_lower(page_text[1])
    /\ Len(page_text[1]) > 7

---------------------------------------------------------------------------
(* Extractor *)

\* some selector of the list finds an element in the container
HasElement(b, selectors) == \E k \in 1..Len(selectors) : select_one(b, selectors[k]) # None

\* C11: when parse_products_from_html has run, every record it returns has
\* product_name or price present (not None), and there are no more records than
\* containers with a name element or a price element: a container with neither
\* yields no record.
C11_RecordHasNameOrPrice ==
    pc = "parsed" =>
        /\ \A i \in 1..Len(items[1]) :
              items[1][i].product_name # None \/ items[1][i].price # None
        /\ Len(items[1]) <=
              Cardinality({ i \in 1..Len(blocks[1]) :
                              HasElement(blocks[1][i], site.name)
                                \/ HasElement(blocks[1][i], site.price) })

\* a document with a container of neither name nor price and a container with
\* a price only was parsed: one record, without product_name
C11_Witness ==
    /\ pc = "parsed"
    /\ \E i \in 1..Len(blocks[1]) :
          ~HasElement(blocks[1][i], site.name) /\ ~HasElement(blocks[1][i], site.price)
    /\ Len(items[1]) = 1
    /\ items[1][1].product_name = None
    /\ items[1][1].price # None

\* a URL in absolute form: a scheme, "://", then a host
AbsoluteForm(url) ==
    LET at == index_of(<<":","/","/">>, url, 1) IN
    /\ at > 1
    /\ Len(url) >= at + 3
    /\ url[at + 3] # "/"
    /\ \A i \in 1..(at - 1) : url[i] \in Range(LOWERCASE)

\* C12: when parse_products_from_html has run, every record whose product_url
\* is present carries a URL in absolute form, whatever the href of the first
\* anchor of its container looked like.
C12_UrlAbsolute ==
    pc = "parsed" =>
        \A i \in 1..Len(items[1]) :
            items[1][i].product_url # None => AbsoluteForm(items[1][i].product_url[1])

---------------------------------------------------------------------------
(* The wait and the pagination loop *)

\* the step from the poll loop read a markup (driver.page_source returned)
TickRead == pc = "poll" /\ last'.step = "wait" /\ last'.result = "ok"

C14_AtMostOneInteraction == hist.interactions <= 1

\* C14: in each iteration of the pagination loop at most one click or direct
\* navigation succeeds, and none is attempted after it; on one element at most a
\* click and, when the click fails, one direct navigation are attempted.  Failed
\* attempts are followed by attempts on later elements and selectors.
C14_AtMostOneAdvance ==
    [][ /\ clicked => hist'.interactions <= hist.interactions
        /\ hist'.interactions <= hist.interactions + 2
        /\ (~clicked /\ clicked') =>
              (last'.result = "clicked" \/ last'.detail = "navigated"
                 \/ last' = DidBoth("advance", "clicked", KI))
      ]_vars

\* a click failed on the first element, the direct navigation failed too, and
\* a click on an element of a later selector advanced: three attempts, one success
C14_Witness ==
    /\ pc = "after_advance"
    /\ clicked
    /\ last.result = "clicked"
    /\ hist.interactions = 3

\* the pagination loop is inside an iteration, after the Extractor ran
InIteration == pc \in { "advance", "advance_node", "after_advance" }

\* C15: current_page is 0 when the pagination loop starts; at the start of each
\* iteration it equals the number of pages parsed so far (inside an iteration,
\* one less); it changes only by +1 at the end of an iteration whose advance
\* succeeded (and is gone with the function's locals), and every such iteration
\* increments it; the number of pages parsed never exceeds the page budget
\* (with a budget below 0 no page is parsed).
C15_PageIndexCountsPages ==
    /\ [](pc = "page_loop" => current_page = hist.extracts)
    /\ [](InIteration => current_page = hist.extracts - 1)
    /\ [](hist.extracts <= pages \/ hist.extracts = 0)
    /\ [][ /\ (current_page' # current_page) =>
                ( \/ /\ current_page' = current_page + 1
                     /\ clicked
                     /\ last'.step = "after_advance"
                     /\ pc' = "page_loop"
                  \/ /\ current_page' = 0
                     /\ pc = "finally" )
           /\ (last'.step = "after_advance" /\ clicked) => (current_page' = current_page + 1)
           /\ (pc \in { "detect", "recheck" } /\ pc' = "page_loop") => (current_page' = 0)
       ]_vars

\* two pages were parsed, both advances succeeded, and the budget of 2 is used up
C15_Witness ==
    /\ pc = "page_loop"
    /\ current_page = 2
    /\ hist.extracts = 2
    /\ pages = 2
    /\ clicked

\* the step is part of the advance attempt of lines 270-290
AdvanceStep == pc \in { "advance", "advance_node" } /\ last'.step = "advance"

\* C16: a step of the advance attempt in which no interrupt arrives, whatever
\* fails in it (find_elements, is_displayed, click, get_attribute, driver.get),
\* leaves the session inside the pagination loop with nothing raised and the
\* collected records untouched; a failure that reaches the handler of line 289
\* moves on to the next selector; and when the selectors are used up without
\* an advance the session leaves by `return collected`, which the caller gets.
C16_InteractionFailureNotFatal ==
    [][ /\ (AdvanceStep /\ last'.result # KI /\ last'.detail # KI) =>
              /\ pc' \in { "advance", "advance_node", "after_advance" }
              /\ pending' = NoPending
              /\ collected' = collected
        /\ (AdvanceStep /\ (last'.result = WDE
                               \/ last'.detail \in { "get_attribute raised", "driver.get raised" })) =>
              /\ pc' = "advance"
              /\ sel_idx' = sel_idx + 1
        /\ (last'.step = "after_advance" /\ ~clicked) =>
              /\ pc' = "finally"
              /\ pending' = Return(collected)
        /\ pc = "finally" => outcome' = pending
      ]_vars

\* records were collected, the interactions tried on the page failed (a click
\* and the direct navigation), no selector advanced, and the session is
\* leaving with the records
C16_Witness ==
    /\ pc = "finally"
    /\ last.step = "after_advance"
    /\ ~clicked
    /\ hist.interactions >= 2
    /\ collected # << >>
    /\ pending = Return(collected)

\* C17: during the wait (in the poll loop and when it has just been left) the
\* counter waited is at most the ceiling manual_timeout.  Stated for ceilings
\* of 0 and more: below 0 the counter starts above the ceiling.
C17_WaitedWithinCeiling ==
    (pc \in { "poll", "recheck" } /\ manual_timeout >= 0) => waited <= manual_timeout

---------------------------------------------------------------------------
(* Phases of the session *)

\* The phase the program is in, numbered in the order NAVIGATING (1),
\* DETECTING_BLOCK (2, up to the notice of lines 214-217), AWAITING_HUMAN (3,
\* the wait and its re-check), PAGINATING (4), DONE (5, from the finally clause
\* on); 0 before the session has a browser.
Phase ==
    CASE pc \in { "main", "start_driver", "off", "parse_blocks", "parse_items", "parsed" } -> 0
      [] pc \in { "navigate", "cleanup", "scroll" } -> 1
      [] pc \in { "detect", "snapshot" } -> 2
      [] pc \in { "wait_enter", "poll", "recheck" } -> 3
      [] pc \in { "page_loop", "advance", "advance_node", "after_advance" } -> 4
      [] OTHER -> 5

\* C18: the phase never decreases; the first detection, when it reads a markup,
\* goes to the snapshot and the wait if and only if looks_blocked reports it
\* blocked, and straight to pagination otherwise; the wait is entered only from
\* there, with the snapshot taken exactly once before the first tick; without a
\* blocked first detection there is no snapshot and no wait; and every run
\* reaches DONE.
C18_PhasesForward ==
    /\ [][ /\ Phase' >= Phase
           /\ (pc = "detect" /\ last'.result = "ok") =>
                 pc' = (IF looks_blocked(Some(last'.page.text)) THEN "snapshot" ELSE "page_loop")
           /\ (Phase # 3 /\ Phase' = 3) =>
                 (pc = "snapshot" /\ hist.first_blocked /\ hist'.snapshots = 1)
       ]_vars
    /\ [](hist.snapshots <= 1)
    /\ [](Phase = 3 => (hist.first_blocked /\ hist.snapshots = 1))
    /\ [](~hist.first_blocked => (hist.snapshots = 0 /\ Phase # 3 /\ pc # "snapshot"))
    /\ <>(Phase = 5)

\* the first detection was blocked, the snapshot was taken once, the wait ended
\* and the re-check was clear: the session is paginating
C18_Witness ==
    /\ Phase = 4
    /\ hist.first_blocked
    /\ hist.snapshots = 1
    /\ hist.recheck = "clear"
    /\ hist.extracts = 1

---------------------------------------------------------------------------
(* Containers processed by the Extractor *)

\* the nodes of the document that some product_block selector selects
MatchedNodes ==
    { i \in 1..Len(html_arg) : html_arg[i].matched \cap Range(site.product_block) # { } }

\* C19: when lines 152-158 have run, blocks holds every node of the document
\* that a product_block selector selects, each exactly once, nodes of equal
\* markup included.
C19_EveryNodeOnce ==
    pc \in { "parse_items", "parsed" } =>
        /\ \A n \in MatchedNodes :
              Cardinality({ i \in 1..Len(blocks[1]) : blocks[1][i].id = n }) = 1
        /\ \A i \in 1..Len(blocks[1]) : blocks[1][i].id \in MatchedNodes

---------------------------------------------------------------------------
(* The collected sequence *)

\* the step ran the Extractor on a markup it read (lines 263-267)
ExtractStep == pc = "page_loop" /\ last'.step = "extract" /\ last'.result = "ok"

\* C20: collected is empty when pagination starts; a step that runs the
\* Extractor appends its records for the markup read at the end of collected;
\* no other step of the pagination loop changes collected; and the session
\* leaves the loop by returning collected, which is what the caller gets.
C20_CollectedAppendOnly ==
    [][ /\ (Phase < 4 /\ Phase' = 4) => (collected' = << >>)
        /\ ExtractStep =>
              (collected' = collected \o parse_products_from_html(last'.page, site))
        /\ (Phase = 4 /\ ~ExtractStep) => (collected' = collected)
        /\ (Phase = 4 /\ pending'.kind = "return") => (pending'.value = collected)
        /\ (pc = "finally" /\ pending.kind = "return") => (outcome' = Return(pending.value))
      ]_vars

\* two pages were parsed, the first with one record and the second with two,
\* and the session has returned the three in that order
C20_Witness ==
    /\ outcome.kind = "return"
    /\ hist.extracts = 2
    /\ Len(parse_products_from_html(PgItems(site), site)) = 1
    /\ Len(parse_products_from_html(PgItemsSel(site), site)) = 2
    /\ outcome.value = parse_products_from_html(PgItems(site), site)
                          \o parse_products_from_html(PgItemsSel(site), site)

====
